---- MODULE Spec2Model ----
(***************************************************************************)
(* The Counter widget of number_counter_by_hosu: a bounded, stepped        *)
(* counter that mirrors its value into a display element, restarts a CSS   *)
(* animation, persists the value in localStorage and notifies change       *)
(* listeners.  One Counter lives in each browsing context (tab); all tabs  *)
(* share one localStorage entry.                                           *)
(***************************************************************************)
EXTENDS Integers, Sequences, FiniteSets, TLC

VARIABLES
    localStorage,  \* the entry under STORAGE_KEY: None, or Some(string)
    counter,       \* per tab: the Counter object's fields
    element,       \* per tab: the display element (textContent, animation class)
    attached,      \* per tab: the event handlers currently bound
    console,       \* per tab: what the logging listener of app.ts has printed
    options,       \* per tab: the options the Counter was constructed with (history)
    lastCommitted, \* per tab: the value last committed in the tab, if any (history)
    call,          \* the last operation invoked (history)
    effects,       \* the side effects of the last operation, in order (history)
    hist           \* the calls observed so far, when a run is being traced (history)

vars ==
    <<localStorage, counter, element, attached, console, options, lastCommitted,
      call, effects, hist>>

----------------------------------------------------------------------------
(* Bounds of the model *)

MaxCount == 4        \* committed values are explored within -MaxCount..MaxCount
MaxListeners == 2    \* at most this many registered listeners
MaxCalls == 8        \* a traced run holds at most this many calls
MaxLog == 3          \* a page of app.ts is used until its listener has printed this much

Inst == {1, 2}       \* browsing contexts

----------------------------------------------------------------------------
(* JavaScript values *)

None == <<>>
Some(x) == <<x>>

\* A JavaScript number: an integer, or NaN
Num(n) == [nan |-> FALSE, n |-> n]
NaN == [nan |-> TRUE, n |-> 0]

Plus(a, b) == IF a.nan \/ b.nan THEN NaN ELSE Num(a.n + b.n)
Minus(a, b) == IF a.nan \/ b.nan THEN NaN ELSE Num(a.n - b.n)
LessEq(a, b) == ~a.nan /\ ~b.nan /\ a.n <= b.n
GreaterEq(a, b) == ~a.nan /\ ~b.nan /\ a.n >= b.n

\* Number.MAX_SAFE_INTEGER is 2^53 - 1; the model checker's integers have 32 bits,
\* so the largest of them stands for it.  Every value explored is far below both.
MAX_SAFE_INTEGER == Num(2147483647)
MIN_SAFE_INTEGER == Num(-2147483647)

\* x ?? d
Coalesce(x, d) == IF x = None THEN d ELSE x[1]

\* Strings are sequences of one-character strings.
DigitChars == <<"0", "1", "2", "3", "4", "5", "6", "7", "8", "9">>
IsDigit(c) == \E d \in 1..10 : DigitChars[d] = c
DigitValue(c) == (CHOOSE d \in 1..10 : DigitChars[d] = c) - 1

RECURSIVE Digits(_)
Digits(n) ==
    IF n < 10 THEN <<DigitChars[n + 1]>>
    ELSE Digits(n \div 10) \o <<DigitChars[(n % 10) + 1]>>

toStringUnsigned(x) ==
    IF x.nan THEN <<"N", "a", "N">>
    ELSE IF x.n < 0 THEN Digits(-x.n)
    ELSE Digits(x.n)
\* Number.prototype.toString()
toString(x) ==
    IF x.nan THEN <<"N", "a", "N">>
    ELSE IF x.n < 0 THEN <<"-">> \o Digits(-x.n)
    ELSE Digits(x.n)

RECURSIVE SkipWhite(_)
SkipWhite(s) == IF s # <<>> /\ Head(s) = " " THEN SkipWhite(Tail(s)) ELSE s

RECURSIVE ParseDigits(_, _)
ParseDigits(s, acc) ==
    IF s # <<>> /\ IsDigit(Head(s))
    THEN ParseDigits(Tail(s), 10 * acc + DigitValue(Head(s)))
    ELSE acc

\* parseInt(str, 10): leading white space, an optional sign, the longest run of digits
parseInt(str) ==
    LET s == SkipWhite(str)
        signed == s # <<>> /\ Head(s) \in {"+", "-"}
        body == IF signed THEN Tail(s) ELSE s
    IN  IF body = <<>> \/ ~IsDigit(Head(body)) THEN NaN
        ELSE IF signed /\ Head(s) = "-" THEN Num(-ParseDigits(body, 0))
        ELSE Num(ParseDigits(body, 0))

----------------------------------------------------------------------------
(* The Counter class *)

Buttons == {"incrementButton", "decrementButton", "resetButton"}
Handlers == {"handleIncrement", "handleDecrement", "handleReset", "handleKeyDown"}

\* One observable side effect: its kind and its string argument
Eff(kind, arg) == <<kind, arg>>
\* The invocation of listener cb with value v
Invoked(cb, v) == <<"listener", <<cb>>, v>>

\* A tab in which no Counter has been constructed yet
NoCounter ==
    [constructed |-> FALSE, count |-> Num(0), minValue |-> Num(0),
     maxValue |-> Num(0), step |-> Num(0), listeners |-> <<>>]
NoElement == [textContent |-> <<>>, animation |-> FALSE]
NoOptions ==
    [initialValue |-> None, minValue |-> None, maxValue |-> None, step |-> None]

\* What one operation of tab i works on: the Counter, its element, its handlers,
\* the console, the shared storage, and the effects it has had so far.
Context(i) ==
    [ctr |-> counter[i], el |-> element[i], on |-> attached[i],
     out |-> console[i], store |-> localStorage, eff |-> <<>>]

\* A registered callback runs.  "log" is the listener of app.ts, which prints
\* the new count; any other callback only observes the call.
Invoke(cb, v, s) ==
    [s EXCEPT !.eff = Append(@, Invoked(cb, v)),
              !.out = IF cb = "log" THEN Append(@, <<"log", v>>) ELSE @]

updateDisplay(s) ==
    [s EXCEPT !.el.textContent = toString(s.ctr.count),
              !.eff = Append(@, Eff("textContent", toString(s.ctr.count)))]

animateCounterWithoutReflow(s) ==
    [s EXCEPT !.el.animation = TRUE,
              !.eff = @ \o <<Eff("classList.remove", <<>>), Eff("classList.add", <<>>)>>]
animateCounter(s) ==
    [s EXCEPT !.el.animation = TRUE,
              !.eff = @ \o <<Eff("classList.remove", <<>>), Eff("offsetWidth", <<>>),
                             Eff("classList.add", <<>>)>>]

saveCountToStorageTwice(s) ==
    [s EXCEPT !.store = Some(toString(s.ctr.count)),
              !.eff = @ \o <<Eff("setItem", toString(s.ctr.count)),
                             Eff("setItem", toString(s.ctr.count))>>]
saveCountToStorage(s) ==
    [s EXCEPT !.store = Some(toString(s.ctr.count)),
              !.eff = Append(@, Eff("setItem", toString(s.ctr.count)))]

RECURSIVE ForEach(_, _, _)
ForEach(ls, v, s) ==
    IF ls = <<>> THEN s ELSE ForEach(Tail(ls), v, Invoke(Head(ls), v, s))

RECURSIVE ForEachReversed(_, _, _)
ForEachReversed(ls, v, s) ==
    IF ls = <<>> THEN s
    ELSE ForEachReversed(SubSeq(ls, 1, Len(ls) - 1), v, Invoke(ls[Len(ls)], v, s))

notifyListenersReversed(s) == ForEachReversed(s.ctr.listeners, s.ctr.count, s)
notifyListeners(s) == ForEach(s.ctr.listeners, s.ctr.count, s)

CommittedNotifyingFirst(s) ==
    saveCountToStorage(animateCounter(updateDisplay(notifyListeners(s))))
CommittedWithoutDisplay(s) == notifyListeners(saveCountToStorage(animateCounter(s)))
\* The four steps every committed mutation ends with
Committed(s) == notifyListeners(saveCountToStorage(animateCounter(updateDisplay(s))))

incrementClamped(s) ==
    LET newCount == Plus(s.ctr.count, s.ctr.step)
    IN  IF LessEq(newCount, s.ctr.maxValue)
        THEN Committed([s EXCEPT !.ctr.count = newCount])
        ELSE Committed([s EXCEPT !.ctr.count = s.ctr.maxValue])
incrementReloading(s) ==
    LET fresh == [s EXCEPT !.ctr.count = IF s.store # None THEN parseInt(s.store[1]) ELSE @,
                           !.eff = Append(@, Eff("getItem", <<>>))]
        newCount == Plus(fresh.ctr.count, fresh.ctr.step)
    IN  IF LessEq(newCount, fresh.ctr.maxValue)
        THEN Committed([fresh EXCEPT !.ctr.count = newCount])
        ELSE s
increment(s) ==
    LET newCount == Plus(s.ctr.count, s.ctr.step)
    IN  IF LessEq(newCount, s.ctr.maxValue)
        THEN Committed([s EXCEPT !.ctr.count = newCount])
        ELSE s

decrementUnchecked(s) ==
    Committed([s EXCEPT !.ctr.count = Minus(s.ctr.count, s.ctr.step)])
decrementClamped(s) ==
    LET newCount == Minus(s.ctr.count, s.ctr.step)
    IN  IF GreaterEq(newCount, s.ctr.minValue)
        THEN Committed([s EXCEPT !.ctr.count = newCount])
        ELSE Committed([s EXCEPT !.ctr.count = s.ctr.minValue])
decrement(s) ==
    LET newCount == Minus(s.ctr.count, s.ctr.step)
    IN  IF GreaterEq(newCount, s.ctr.minValue)
        THEN Committed([s EXCEPT !.ctr.count = newCount])
        ELSE s

resetSilently(s) ==
    saveCountToStorage(animateCounter(updateDisplay([s EXCEPT !.ctr.count = Num(0)])))
reset(s) == Committed([s EXCEPT !.ctr.count = Num(0)])

addChangeListenerOnce(cb, s) ==
    IF \E k \in 1..Len(s.ctr.listeners) : s.ctr.listeners[k] = cb THEN s
    ELSE [s EXCEPT !.ctr.listeners = Append(@, cb)]
addChangeListenerNotifying(cb, s) ==
    Invoke(cb, s.ctr.count, [s EXCEPT !.ctr.listeners = Append(@, cb)])
addChangeListener(cb, s) == [s EXCEPT !.ctr.listeners = Append(@, cb)]

\* addEventListener ignores a handler that is already bound
init(s) ==
    [s EXCEPT !.on = Handlers,
              !.eff = @ \o <<Eff("addEventListener", <<"handleIncrement">>),
                             Eff("addEventListener", <<"handleDecrement">>),
                             Eff("addEventListener", <<"handleReset">>),
                             Eff("addEventListener", <<"handleKeyDown">>)>>]

destroyKeepingReset(s) ==
    [s EXCEPT !.on = @ \ {"handleIncrement", "handleDecrement", "handleKeyDown"},
              !.eff = @ \o <<Eff("removeEventListener", <<"handleIncrement">>),
                             Eff("removeEventListener", <<"handleDecrement">>),
                             Eff("removeEventListener", <<"handleKeyDown">>)>>]
destroy(s) ==
    [s EXCEPT !.on = {},
              !.eff = @ \o <<Eff("removeEventListener", <<"handleIncrement">>),
                             Eff("removeEventListener", <<"handleDecrement">>),
                             Eff("removeEventListener", <<"handleReset">>),
                             Eff("removeEventListener", <<"handleKeyDown">>)>>]

constructorIgnoringStorage(opts, s) ==
    LET made == [constructed |-> TRUE,
                 minValue |-> Coalesce(opts.minValue, MIN_SAFE_INTEGER),
                 maxValue |-> Coalesce(opts.maxValue, MAX_SAFE_INTEGER),
                 step |-> Coalesce(opts.step, Num(1)),
                 count |-> Coalesce(opts.initialValue, Num(0)),
                 listeners |-> <<>>]
    IN  init(updateDisplay([s EXCEPT !.ctr = made, !.eff = Append(@, Eff("getItem", <<>>))]))
constructorClamping(opts, s) ==
    LET savedCount == s.store
        lo == Coalesce(opts.minValue, MIN_SAFE_INTEGER)
        hi == Coalesce(opts.maxValue, MAX_SAFE_INTEGER)
        start == IF savedCount # None THEN parseInt(savedCount[1])
                 ELSE Coalesce(opts.initialValue, Num(0))
        made == [constructed |-> TRUE, minValue |-> lo, maxValue |-> hi,
                 step |-> Coalesce(opts.step, Num(1)),
                 count |-> IF start.nan THEN start
                           ELSE IF start.n < lo.n THEN lo
                           ELSE IF start.n > hi.n THEN hi ELSE start,
                 listeners |-> <<>>]
    IN  init(updateDisplay([s EXCEPT !.ctr = made, !.eff = Append(@, Eff("getItem", <<>>))]))
constructorFallingBack(opts, s) ==
    LET savedCount == s.store
        parsed == IF savedCount # None THEN parseInt(savedCount[1]) ELSE NaN
        made == [constructed |-> TRUE,
                 minValue |-> Coalesce(opts.minValue, MIN_SAFE_INTEGER),
                 maxValue |-> Coalesce(opts.maxValue, MAX_SAFE_INTEGER),
                 step |-> Coalesce(opts.step, Num(1)),
                 count |-> IF parsed.nan THEN Coalesce(opts.initialValue, Num(0))
                           ELSE parsed,
                 listeners |-> <<>>]
    IN  init(updateDisplay([s EXCEPT !.ctr = made, !.eff = Append(@, Eff("getItem", <<>>))]))
\* new Counter(element, incrementButton, decrementButton, resetButton, opts)
\* on a freshly loaded page
constructor(opts, s) ==
    LET savedCount == s.store
        made == [constructed |-> TRUE,
                 minValue |-> Coalesce(opts.minValue, MIN_SAFE_INTEGER),
                 maxValue |-> Coalesce(opts.maxValue, MAX_SAFE_INTEGER),
                 step |-> Coalesce(opts.step, Num(1)),
                 count |-> IF savedCount # None THEN parseInt(savedCount[1])
                           ELSE Coalesce(opts.initialValue, Num(0)),
                 listeners |-> <<>>]
    IN  init(updateDisplay([s EXCEPT !.ctr = made, !.eff = Append(@, Eff("getItem", <<>>))]))

handleIncrement(s) == increment(s)
handleDecrement(s) == decrement(s)
handleReset(s) == reset(s)

\* A click event on button b reaches the handler bound to it, if any
click(b, s) ==
    LET t == [s EXCEPT !.eff = Append(@, Eff("click", <<b>>))]
    IN  CASE b = "incrementButton" /\ "handleIncrement" \in s.on -> handleIncrement(t)
          [] b = "decrementButton" /\ "handleDecrement" \in s.on -> handleDecrement(t)
          [] b = "resetButton" /\ "handleReset" \in s.on -> handleReset(t)
          [] OTHER -> t

handleKeyDownEnterOnly(key, activeElement, s) ==
    IF activeElement \in Buttons /\ key = "Enter"
    THEN click(activeElement, [s EXCEPT !.eff = Append(@, Eff("preventDefault", <<>>))])
    ELSE s
handleKeyDown(key, activeElement, s) ==
    IF activeElement \in Buttons /\ key \in {"Enter", " "}
    THEN click(activeElement, [s EXCEPT !.eff = Append(@, Eff("preventDefault", <<>>))])
    ELSE s

\* A keydown event on the document reaches handleKeyDown, if bound
keydown(key, activeElement, s) ==
    IF "handleKeyDown" \in s.on THEN handleKeyDown(key, activeElement, s) ELSE s

----------------------------------------------------------------------------
(* The entry point, app.ts *)

\* The ids the entry point looks up, in the order it looks them up
ElementIds == <<"counter", "increment", "decrement", "reset">>
Elements == {ElementIds[k] : k \in 1..Len(ElementIds)}

counterOptions ==
    [initialValue |-> Some(Num(0)), minValue |-> Some(Num(-100)),
     maxValue |-> Some(Num(100)), step |-> Some(Num(1))]

\* document.getElementById for each id
selectElements(s) ==
    [s EXCEPT !.eff = @ \o [k \in 1..Len(ElementIds) |-> Eff("getElementById", <<ElementIds[k]>>)]]

\* console.error and throw new Error: the script ends here
requiredNotFound(s) ==
    [s EXCEPT !.out = Append(@, <<"error">>),
              !.eff = @ \o <<Eff("console.error", <<>>), Eff("throw", <<>>)>>]

appCheckingLate(found, s) ==
    LET made == addChangeListener("log", constructor(counterOptions, selectElements(s)))
    IN  IF found # Elements THEN requiredNotFound(made) ELSE made
\* The script run on a page on which the elements with the ids in found exist
app(found, s) ==
    IF found # Elements
    THEN requiredNotFound(selectElements(s))
    ELSE addChangeListener("log", constructor(counterOptions, selectElements(s)))

----------------------------------------------------------------------------
(* Inputs *)

InitialValues == {None, Some(Num(3))}
MinValues == {None, Some(Num(-2)), Some(Num(1))}
MaxValues == {None, Some(Num(3))}
Steps == {None, Some(Num(2)), Some(Num(0))}
OptionsSet ==
    [initialValue : InitialValues, minValue : MinValues, maxValue : MaxValues,
     step : Steps]

\* What an earlier session, or anything else, may have left in storage
StoredAtStart == {None, Some(<<"a", "b", "c">>), Some(<<" ", "2", "p", "x">>)}

Callbacks == {"A", "B"}
Keys == {"Enter", " ", "a"}
Focusable == Buttons \cup {"body"}

\* The options of the scenario of the specification's section 8, and the defaults
ScenarioOptions ==
    [initialValue |-> Some(Num(0)), minValue |-> Some(Num(-5)),
     maxValue |-> Some(Num(5)), step |-> Some(Num(2))]
TracedOptions == {ScenarioOptions, NoOptions}

\* Options for the runs of two tabs
TabOptions ==
    {NoOptions,
     [initialValue |-> Some(Num(3)), minValue |-> Some(Num(-2)),
      maxValue |-> Some(Num(3)), step |-> Some(Num(2))]}

\* Options for the runs driven through the user interface
UIOptions ==
    {NoOptions,
     [initialValue |-> Some(Num(3)), minValue |-> Some(Num(-2)),
      maxValue |-> Some(Num(3)), step |-> Some(Num(2))],
     [initialValue |-> None, minValue |-> Some(Num(1)),
      maxValue |-> Some(Num(3)), step |-> None]}

----------------------------------------------------------------------------
(* Operations *)

\* A page that has just been loaded in tab i
FreshPage(i) ==
    [ctr |-> NoCounter, el |-> NoElement, on |-> {}, out |-> <<>>,
     store |-> localStorage, eff |-> <<>>]

\* Committed values are explored within -MaxCount..MaxCount
Explored(s) == s.ctr.count.nan \/ s.ctr.count.n \in (-MaxCount)..MaxCount

\* An operation with these effects wrote the count to storage
IsCommit(eff) == \E k \in 1..Len(eff) : eff[k][1] = "setItem"

\* Operation op of tab i took the tab from Context(i) to s
Do(i, op, arg, s) ==
    /\ Explored(s)
    /\ lastCommitted' =
          [lastCommitted EXCEPT
              ![i] = IF IsCommit(s.eff) THEN Some(s.ctr.count) ELSE @]
    /\ localStorage' = s.store
    /\ counter' = [counter EXCEPT ![i] = s.ctr]
    /\ element' = [element EXCEPT ![i] = s.el]
    /\ attached' = [attached EXCEPT ![i] = s.on]
    /\ console' = [console EXCEPT ![i] = s.out]
    /\ effects' = s.eff
    /\ call' = [op |-> op, inst |-> i, arg |-> arg]

Construct(i, opts) ==
    /\ Do(i, "constructor", <<>>, constructor(opts, FreshPage(i)))
    /\ options' = [options EXCEPT ![i] = opts]

AddChangeListener(i, cb) ==
    /\ counter[i].constructed
    /\ Len(counter[i].listeners) < MaxListeners
    /\ Do(i, "addChangeListener", <<cb>>, addChangeListener(cb, Context(i)))
    /\ UNCHANGED options

Increment(i) ==
    /\ counter[i].constructed
    /\ Do(i, "increment", <<>>, increment(Context(i)))
    /\ UNCHANGED options

Decrement(i) ==
    /\ counter[i].constructed
    /\ Do(i, "decrement", <<>>, decrement(Context(i)))
    /\ UNCHANGED options

Reset(i) ==
    /\ counter[i].constructed
    /\ Do(i, "reset", <<>>, reset(Context(i)))
    /\ UNCHANGED options

InitBindings(i) ==
    /\ counter[i].constructed
    /\ Do(i, "init", <<>>, init(Context(i)))
    /\ UNCHANGED options

Destroy(i) ==
    /\ counter[i].constructed
    /\ Do(i, "destroy", <<>>, destroy(Context(i)))
    /\ UNCHANGED options

Click(i, b) ==
    /\ counter[i].constructed
    /\ Do(i, "click", <<b>>, click(b, Context(i)))
    /\ UNCHANGED options

KeyDown(i, key, activeElement) ==
    /\ counter[i].constructed
    /\ Do(i, "keydown", <<key, activeElement>>, keydown(key, activeElement, Context(i)))
    /\ UNCHANGED options

\* The page is loaded in tab i and runs app.ts
Load(i, found) ==
    /\ Do(i, "load", SelectSeq(ElementIds, LAMBDA id : id \in found),
          app(found, FreshPage(i)))
    /\ options' = [options EXCEPT ![i] = IF found = Elements THEN counterOptions
                                          ELSE NoOptions]

----------------------------------------------------------------------------
(* One tab, any options, any order of operations *)

Init ==
    /\ localStorage \in StoredAtStart
    /\ counter = [i \in Inst |-> NoCounter]
    /\ element = [i \in Inst |-> NoElement]
    /\ attached = [i \in Inst |-> {}]
    /\ console = [i \in Inst |-> <<>>]
    /\ options = [i \in Inst |-> NoOptions]
    /\ lastCommitted = [i \in Inst |-> None]
    /\ call = [op |-> "none", inst |-> 1, arg |-> <<>>]
    /\ effects = <<>>
    /\ hist = <<>>

Next ==
    \/ \E opts \in OptionsSet : Construct(1, opts) /\ UNCHANGED hist
    \/ \E cb \in Callbacks : AddChangeListener(1, cb) /\ UNCHANGED hist
    \/ Increment(1) /\ UNCHANGED hist
    \/ Decrement(1) /\ UNCHANGED hist
    \/ Reset(1) /\ UNCHANGED hist
    \/ InitBindings(1) /\ UNCHANGED hist
    \/ Destroy(1) /\ UNCHANGED hist

Spec == Init /\ [][Next]_vars

----------------------------------------------------------------------------
(* One tab, driven through its buttons and the keyboard as well *)

NextUI ==
    \/ \E opts \in UIOptions : Construct(1, opts) /\ UNCHANGED hist
    \/ \E cb \in Callbacks : AddChangeListener(1, cb) /\ UNCHANGED hist
    \/ Increment(1) /\ UNCHANGED hist
    \/ Decrement(1) /\ UNCHANGED hist
    \/ Reset(1) /\ UNCHANGED hist
    \/ InitBindings(1) /\ UNCHANGED hist
    \/ Destroy(1) /\ UNCHANGED hist
    \/ \E b \in Buttons : Click(1, b) /\ UNCHANGED hist
    \/ \E key \in Keys, a \in Focusable : KeyDown(1, key, a) /\ UNCHANGED hist

SpecUI == Init /\ [][NextUI]_vars

----------------------------------------------------------------------------
(* One tab running app.ts, driven through its buttons and the keyboard.  The
   listener of app.ts prints every commit; a page is used until it has printed
   MaxLog lines. *)

NextApp ==
    \/ \E found \in SUBSET Elements : Load(1, found) /\ UNCHANGED hist
    \/ \E b \in Buttons :
          Len(console[1]) < MaxLog /\ Click(1, b) /\ UNCHANGED hist
    \/ \E key \in Keys, a \in Focusable :
          Len(console[1]) < MaxLog /\ KeyDown(1, key, a) /\ UNCHANGED hist

SpecApp == Init /\ [][NextApp]_vars

----------------------------------------------------------------------------
(* Two tabs over the same storage entry.  Each operation runs to completion in
   its own tab; the operations of the two tabs interleave in any order. *)

NextTabs ==
    \E i \in Inst :
        \/ \E opts \in TabOptions : Construct(i, opts) /\ UNCHANGED hist
        \/ Increment(i) /\ UNCHANGED hist
        \/ Decrement(i) /\ UNCHANGED hist
        \/ Reset(i) /\ UNCHANGED hist

SpecTabs == Init /\ [][NextTabs]_vars

----------------------------------------------------------------------------
(* One tab, a traced run: every call is appended to hist *)

Trace ==
    /\ Len(hist) < MaxCalls
    /\ hist' = Append(hist, [op |-> call'.op, arg |-> call'.arg,
                             committed |-> IsCommit(effects'),
                             value |-> counter'[call'.inst].count])

InitTrace ==
    /\ Init
    /\ localStorage = None

NextTrace ==
    \/ \E opts \in TracedOptions :
          ~counter[1].constructed /\ Construct(1, opts) /\ UNCHANGED hist
    \/ AddChangeListener(1, "log") /\ Trace
    \/ Increment(1) /\ Trace
    \/ Decrement(1) /\ Trace
    \/ Reset(1) /\ Trace

SpecTrace == InitTrace /\ [][NextTrace]_vars

----------------------------------------------------------------------------
(* Reading the record of an operation *)

Mutations == {"increment", "decrement", "reset"}

\* The storage writes, and the listener invocations, among the effects
SetItems(eff) == SelectSeq(eff, LAMBDA e : e[1] = "setItem")
Invocations(eff) == SelectSeq(eff, LAMBDA e : e[1] = "listener")
Has(eff, e) == \E k \in 1..Len(eff) : eff[k] = e

\* Every listener of ls, in order, called with v
EachCalled(ls, v) == [k \in 1..Len(ls) |-> Invoked(ls[k], v)]

Greater(a, b) == ~a.nan /\ ~b.nan /\ a.n > b.n
Less(a, b) == ~a.nan /\ ~b.nan /\ a.n < b.n

\* The display was synced to v, the animation restarted, v was written to storage
\* and every listener of tab i was told v
CommitHappened(i, v) ==
    /\ counter'[i].count = v
    /\ element'[i].textContent = toString(v)
    /\ Has(effects', Eff("textContent", toString(v)))
    /\ element'[i].animation
    /\ Has(effects', Eff("classList.remove", <<>>))
    /\ Has(effects', Eff("offsetWidth", <<>>))
    /\ Has(effects', Eff("classList.add", <<>>))
    /\ localStorage' = Some(toString(v))
    /\ SetItems(effects') = <<Eff("setItem", toString(v))>>
    /\ Invocations(effects') = EachCalled(counter[i].listeners, v)

\* Value, display, storage and the listeners' record are as they were
NothingHappened(i) ==
    /\ counter'[i] = counter[i]
    /\ element'[i] = element[i]
    /\ localStorage' = localStorage
    /\ console' = console
    /\ effects' = <<>>

----------------------------------------------------------------------------
(* Claims *)

\* C1: after every committed increment(), decrement() or reset(), for any options
\* and any starting value, minValue <= value <= maxValue.
C1_ValueWithinBounds ==
    \A i \in Inst :
        (call.inst = i /\ call.op \in Mutations /\ IsCommit(effects))
            => /\ LessEq(counter[i].minValue, counter[i].count)
               /\ LessEq(counter[i].count, counter[i].maxValue)

\* C2: increment() computes candidate = value + step; if candidate <= maxValue the
\* value becomes candidate and display sync, animation, one storage write and the
\* notification of every listener with the new value happen; if candidate >
\* maxValue, value, display, storage and the listeners' record are unchanged.
C2_Increment ==
    [][\A i \in Inst :
          (call'.op = "increment" /\ call'.inst = i) =>
              LET candidate == Plus(counter[i].count, counter[i].step)
              IN  /\ LessEq(candidate, counter[i].maxValue) => CommitHappened(i, candidate)
                  /\ Greater(candidate, counter[i].maxValue) => NothingHappened(i)]_vars

\* C2 witness: an increment committed and told two listeners
C2_Witness ==
    /\ call.op = "increment"
    /\ IsCommit(effects)
    /\ Len(counter[1].listeners) = 2
    /\ Len(Invocations(effects)) = 2

\* C3: decrement() computes candidate = value - step and commits (value, display
\* sync, animation, storage write, listener notification) only if candidate >=
\* minValue; otherwise value, display, storage and the listeners' record are unchanged.
C3_Decrement ==
    [][\A i \in Inst :
          (call'.op = "decrement" /\ call'.inst = i) =>
              LET candidate == Minus(counter[i].count, counter[i].step)
              IN  /\ GreaterEq(candidate, counter[i].minValue) => CommitHappened(i, candidate)
                  /\ Less(candidate, counter[i].minValue) => NothingHappened(i)]_vars

\* C3 witness: a decrement below minValue was refused although listeners are registered
C3_Witness ==
    /\ call.op = "decrement"
    /\ effects = <<>>
    /\ counter[1].listeners # <<>>
    /\ Less(Minus(counter[1].count, counter[1].step), counter[1].minValue)

C5_ResetToInitialValue ==
    \A i \in Inst :
        (call.op = "reset" /\ call.inst = i)
            => counter[i].count = Coalesce(options[i].initialValue, Num(0))

\* C5 failing input: constructed with initialValue 3 over empty storage, then reset
C5_FailingInput ==
    /\ call.op = "reset"
    /\ options[1].initialValue = Some(Num(3))
    /\ counter[1].count = Num(0)

\* C6: once a mutation has been committed, constructing a new Counter against the
\* same storage, with any initialValue and bounds, starts with exactly the last
\* committed value.
C6_RoundTrip ==
    [][\A i \in Inst :
          (call'.op = "constructor" /\ call'.inst = i /\ lastCommitted[i] # None)
              => counter'[i].count = lastCommitted[i][1]]_vars

\* C6 witness: a Counter configured with initialValue 3 started with an earlier
\* commit of another value, one below its minValue
C6_Witness ==
    /\ call.op = "constructor"
    /\ lastCommitted[1] # None
    /\ options[1].initialValue = Some(Num(3))
    /\ counter[1].count = lastCommitted[1][1]
    /\ Less(counter[1].count, counter[1].minValue)

\* Whether operation op of tab i passes its bounds check
Commits(i, op) ==
    CASE op = "increment" ->
            LessEq(Plus(counter[i].count, counter[i].step), counter[i].maxValue)
      [] op = "decrement" ->
            GreaterEq(Minus(counter[i].count, counter[i].step), counter[i].minValue)
      [] op = "reset" -> TRUE
      [] OTHER -> FALSE

\* C7: storage is written exactly once per committed increment, decrement or reset,
\* with the decimal string of the new value, and never by construction, by a no-op
\* increment or decrement, by addChangeListener, or by init or destroy.
C7_StorageWrites ==
    [][\A i \in Inst :
          (call'.inst = i) =>
              IF Commits(i, call'.op)
              THEN /\ SetItems(effects') = <<Eff("setItem", toString(counter'[i].count))>>
                   /\ localStorage' = Some(toString(counter'[i].count))
              ELSE /\ SetItems(effects') = <<>>
                   /\ localStorage' = localStorage]_vars

\* C7 witness: a committed decrement wrote the decimal string of a negative value, once
C7_Witness ==
    /\ call.op = "decrement"
    /\ counter[1].count = Num(-2)
    /\ SetItems(effects) = <<Eff("setItem", <<"-", "2">>)>>
    /\ localStorage = Some(<<"-", "2">>)

\* C8: on every committed mutation the listeners are invoked in the order of their
\* registration, each with the new value.
C8_ListenerOrder ==
    \A i \in Inst :
        (call.inst = i /\ call.op \in Mutations /\ IsCommit(effects)) =>
            LET calls == Invocations(effects)
                ls == counter[i].listeners
            IN  /\ Len(calls) = Len(ls)
                /\ \A k \in 1..Len(ls) : calls[k] = Invoked(ls[k], counter[i].count)

\* C8 witness: A was registered before B, and a commit called A, then B
C8_Witness ==
    /\ call.op \in Mutations
    /\ counter[1].listeners = <<"A", "B">>
    /\ Invocations(effects) =
          <<Invoked("A", counter[1].count), Invoked("B", counter[1].count)>>

\* The values the calls h commit, starting from value v under the bounds and step
\* of c, as the specification's section 4.1 defines the three mutations
RECURSIVE Reference(_, _, _)
Reference(h, v, c) ==
    IF h = <<>> THEN <<>>
    ELSE LET op == Head(h).op
             up == Plus(v, c.step)
             down == Minus(v, c.step)
         IN  CASE op = "increment" /\ LessEq(up, c.maxValue) ->
                    <<up>> \o Reference(Tail(h), up, c)
               [] op = "decrement" /\ GreaterEq(down, c.minValue) ->
                    <<down>> \o Reference(Tail(h), down, c)
               [] op = "reset" -> <<Num(0)>> \o Reference(Tail(h), Num(0), c)
               [] OTHER -> Reference(Tail(h), v, c)

Logged(vs) == [k \in 1..Len(vs) |-> <<"log", vs[k]>>]
Ops(h) == [k \in 1..Len(h) |-> h[k].op]

\* C9: the values delivered to a listener registered before a sequence of
\* increment, decrement and reset calls are exactly the committed values, in call
\* order, one per commit and none per no-op; with options {0, -5, 5, 2} and empty
\* storage, increment x3, decrement x3, reset delivers 2, 4, 2, 0, -2, 0 and ends
\* with value 0 and "0" in storage.
C9_Delivered ==
    /\ (/\ hist # <<>>
        /\ hist[1].op = "addChangeListener"
        /\ \A k \in 2..Len(hist) : hist[k].op \in Mutations)
           => console[1] =
                 Logged(Reference(Tail(hist),
                                  Coalesce(options[1].initialValue, Num(0)), counter[1]))
    /\ (/\ options[1] = ScenarioOptions
        /\ Ops(hist) = <<"addChangeListener", "increment", "increment", "increment",
                         "decrement", "decrement", "decrement", "reset">>)
           => /\ console[1] = Logged(<<Num(2), Num(4), Num(2), Num(0), Num(-2), Num(0)>>)
              /\ counter[1].count = Num(0)
              /\ localStorage = Some(<<"0">>)

\* C9 witness: the scenario has run to its end
C9_Witness ==
    /\ options[1] = ScenarioOptions
    /\ counter[1].constructed
    /\ Ops(hist) = <<"addChangeListener", "increment", "increment", "increment",
                     "decrement", "decrement", "decrement", "reset">>
    /\ Len(console[1]) = 6

\* C10: with step >= 1, an increment() at value = maxValue changes neither value,
\* display nor storage and invokes no listener, so the value is still maxValue for
\* the next call.
C10_NoOpAtMax ==
    [][\A i \in Inst :
          (/\ call'.op = "increment"
           /\ call'.inst = i
           /\ counter[i].count = counter[i].maxValue
           /\ GreaterEq(counter[i].step, Num(1)))
              => NothingHappened(i)]_vars

\* C10 witness: a second consecutive increment at maxValue, with a listener
\* registered, did nothing
C10_Witness ==
    /\ call.op = "increment"
    /\ effects = <<>>
    /\ counter[1].count = counter[1].maxValue
    /\ GreaterEq(counter[1].step, Num(1))
    /\ counter[1].listeners # <<>>


\* C11: on construction the starting value is the integer stored under the storage
\* key if an entry is present, otherwise options.initialValue (0 if unspecified),
\* in both cases taken as it is, with no check against minValue and maxValue.
C11_StartingValue ==
    [][\A i \in Inst :
          (call'.op = "constructor" /\ call'.inst = i) =>
              /\ localStorage = None
                    => counter'[i].count = Coalesce(options'[i].initialValue, Num(0))
              /\ \A n \in (-MaxCount)..MaxCount :
                    localStorage = Some(toString(Num(n))) => counter'[i].count = Num(n)]_vars

\* C11 witness: a Counter started with a stored integer above its maxValue
C11_Witness ==
    /\ call.op = "constructor"
    /\ localStorage = Some(toString(counter[1].count))
    /\ ~counter[1].count.nan
    /\ Greater(counter[1].count, counter[1].maxValue)


\* The effects of the given kinds
OfKinds(eff, kinds) == SelectSeq(eff, LAMBDA e : e[1] \in kinds)

\* C12: if any of the four elements is missing when app.ts runs, an error is raised
\* at once and no Counter is constructed: storage is neither read nor written, no
\* click or keydown handler is attached and no change listener is registered.
C12_MissingElements ==
    [][\A i \in Inst :
          (call'.op = "load" /\ call'.inst = i /\ Len(call'.arg) < Len(ElementIds)) =>
              /\ Has(effects', Eff("throw", <<>>))
              /\ counter'[i] = NoCounter
              /\ OfKinds(effects', {"getItem", "setItem", "addEventListener"}) = <<>>
              /\ localStorage' = localStorage
              /\ attached'[i] = {}]_vars

\* C12 witness: a page that lacks the reset button was loaded over a stored value
C12_Witness ==
    /\ call.op = "load"
    /\ call.arg = <<"counter", "increment", "decrement">>
    /\ localStorage # None
    /\ lastCommitted[1] # None
    /\ ~counter[1].constructed
    /\ console[1] = <<<<"error">>>>


\* The operation behind button b
OperationOf(b, s) ==
    CASE b = "incrementButton" -> increment(s)
      [] b = "decrementButton" -> decrement(s)
      [] b = "resetButton" -> reset(s)

\* C13: while the event bindings are attached, a keydown of Enter or Space with
\* the focus on one of the three buttons prevents the default action and invokes
\* that button's operation exactly once, through one synthesized click; a keydown
\* of any other key, or with the focus elsewhere, changes nothing.
C13_KeyDown ==
    [][\A i \in Inst :
          (call'.op = "keydown" /\ call'.inst = i /\ attached[i] = Handlers) =>
              LET key == call'.arg[1]
                  focus == call'.arg[2]
              IN  IF key \in {"Enter", " "} /\ focus \in Buttons
                  THEN LET once == OperationOf(focus, Context(i))
                       IN  /\ effects' = <<Eff("preventDefault", <<>>),
                                           Eff("click", <<focus>>)>> \o once.eff
                           /\ counter'[i] = once.ctr
                           /\ element'[i] = once.el
                           /\ localStorage' = once.store
                           /\ console'[i] = once.out
                           /\ attached'[i] = Handlers
                  ELSE NothingHappened(i) /\ attached'[i] = Handlers]_vars

\* C13 witness: Space on the focused decrement button committed a decrement
C13_Witness ==
    /\ call.op = "keydown"
    /\ call.arg = <<" ", "decrementButton">>
    /\ attached[1] = Handlers
    /\ IsCommit(effects)
    /\ effects[1] = Eff("preventDefault", <<>>)
    /\ Invocations(effects) # <<>>


\* C14: destroy() releases all four event bindings and changes nothing else;
\* afterwards clicks and keydowns change neither value, display nor storage and
\* notify no listener, value and stored entry stay what they were, and a later
\* construction starts with the stored value.
C14_Destroy ==
    [][\A i \in Inst :
          (call'.inst = i) =>
              /\ call'.op = "destroy" =>
                    /\ attached'[i] = {}
                    /\ counter'[i] = counter[i]
                    /\ element'[i] = element[i]
                    /\ localStorage' = localStorage
                    /\ console' = console
              /\ (call'.op \in {"click", "keydown"} /\ attached[i] = {}) =>
                    /\ attached'[i] = {}
                    /\ counter'[i] = counter[i]
                    /\ element'[i] = element[i]
                    /\ localStorage' = localStorage
                    /\ console' = console
                    /\ OfKinds(effects', {"listener", "setItem", "textContent"}) = <<>>
              /\ (call'.op = "constructor" /\ attached[i] = {} /\ counter[i].constructed
                    /\ localStorage = Some(toString(counter[i].count))) =>
                    counter'[i].count = counter[i].count]_vars

\* C14 witness: after destroy(), Enter on the focused reset button changed nothing
\* although a listener is registered and the value is not 0
C14_Witness ==
    /\ call.op = "keydown"
    /\ call.arg = <<"Enter", "resetButton">>
    /\ attached[1] = {}
    /\ counter[1].listeners # <<>>
    /\ counter[1].count # Num(0)
    /\ localStorage = Some(toString(counter[1].count))
    /\ effects = <<>>


\* What a commit of value v with listeners ls does, in order
CommitSequence(ls, v) ==
    <<Eff("textContent", toString(v)), Eff("classList.remove", <<>>),
      Eff("offsetWidth", <<>>), Eff("classList.add", <<>>),
      Eff("setItem", toString(v))>> \o EachCalled(ls, v)

\* C15: a committed mutation updates the value, syncs the display, restarts the
\* animation, writes storage and notifies the listeners, in this order, so the
\* display text and the stored entry are the decimal string of v before any
\* listener is invoked with v.
C15_CommitOrder ==
    [][\A i \in Inst :
          (call'.inst = i /\ Commits(i, call'.op)) =>
              /\ effects' = CommitSequence(counter[i].listeners, counter'[i].count)
              /\ element'[i].textContent = toString(counter'[i].count)
              /\ localStorage' = Some(toString(counter'[i].count))]_vars

\* C15 witness: a committed decrement synced the display and wrote storage, then
\* called two listeners
C15_Witness ==
    /\ call.op = "decrement"
    /\ Len(effects) = 7
    /\ effects[1][1] = "textContent"
    /\ effects[5][1] = "setItem"
    /\ effects[6] = Invoked("B", counter[1].count)
    /\ effects[7] = Invoked("A", counter[1].count)


\* C16: with two Counters on the same storage key, whose operations interleave,
\* the stored entry is always the value of the most recent commit of either one:
\* a commit overwrites it and nothing else touches it.  No Counter reads storage
\* after its construction: an operation works on the Counter's own value and
\* leaves the other Counter alone, so a Counter's value can differ from the entry.
C16_LastWriterWins ==
    [][\A i \in Inst :
          (call'.inst = i) =>
              /\ IF Commits(i, call'.op)
                 THEN localStorage' = Some(toString(counter'[i].count))
                 ELSE localStorage' = localStorage
              /\ \A j \in Inst \ {i} : counter'[j] = counter[j] /\ element'[j] = element[j]
              /\ call'.op # "constructor" =>
                    /\ ~Has(effects', Eff("getItem", <<>>))
                    /\ counter'[i].count =
                          CASE ~Commits(i, call'.op) -> counter[i].count
                            [] call'.op = "increment" -> Plus(counter[i].count, counter[i].step)
                            [] call'.op = "decrement" -> Minus(counter[i].count, counter[i].step)
                            [] call'.op = "reset" -> Num(0)]_vars

\* C16 witness: tab 2 committed last; tab 1, which had committed before, holds
\* another value than the stored one
C16_Witness ==
    /\ counter[1].constructed
    /\ counter[2].constructed
    /\ call.inst = 2
    /\ IsCommit(effects)
    /\ lastCommitted[1] # None
    /\ localStorage = Some(toString(counter[2].count))
    /\ counter[1].count # counter[2].count


\* A numeric string: an optional minus sign and one or more digits, nothing else
IsNumeric(str) ==
    LET digits == IF str # <<>> /\ Head(str) = "-" THEN Tail(str) ELSE str
    IN  digits # <<>> /\ \A k \in 1..Len(digits) : IsDigit(digits[k])

\* A string that begins, after white space and an optional sign, with a digit
HasNumericPrefix(str) ==
    LET s == SkipWhite(str)
        body == IF s # <<>> /\ Head(s) \in {"+", "-"} THEN Tail(s) ELSE s
    IN  body # <<>> /\ IsDigit(Head(body))

\* From a not-a-number value, increment() and decrement() do nothing and reset()
\* gives 0; nothing else of a Counter makes the value a number again
StuckAtNaN(i) ==
    /\ (call'.op \in {"increment", "decrement"} /\ counter[i].count.nan)
          => NothingHappened(i)
    /\ (call'.op = "reset" /\ counter[i].count.nan) => counter'[i].count = Num(0)
    /\ (counter[i].count.nan /\ ~counter'[i].count.nan)
          => call'.op \in {"reset", "constructor"}

\* C17 as claimed: a stored entry that is a non-numeric string makes the starting
\* value not-a-number, with no fallback to options.initialValue; from there
\* increment() and decrement() are no-ops and only reset() gives a number, 0.
C17_NonNumericStartsNaN ==
    [][\A i \in Inst :
          (call'.inst = i) =>
              /\ (call'.op = "constructor" /\ localStorage # None
                    /\ ~IsNumeric(localStorage[1])) => counter'[i].count = NaN
              /\ StuckAtNaN(i)]_vars

\* C17 as amended: the starting value is not-a-number when the stored entry does
\* not begin, after white space and an optional sign, with a decimal digit; a
\* non-numeric entry that begins with digits starts the counter at those digits'
\* value.  Neither falls back to options.initialValue.  The rest as claimed.
C17_NoNumericPrefixStartsNaN ==
    [][\A i \in Inst :
          (call'.inst = i) =>
              /\ (call'.op = "constructor" /\ localStorage # None
                    /\ ~HasNumericPrefix(localStorage[1])) => counter'[i].count = NaN
              /\ (call'.op = "constructor" /\ localStorage = Some(<<" ", "2", "p", "x">>))
                    => counter'[i].count = Num(2)
              /\ StuckAtNaN(i)]_vars

\* C17 witness: a Counter configured with initialValue 3 started not-a-number and
\* refused an increment although a listener is registered
C17_Witness ==
    /\ call.op = "increment"
    /\ counter[1].count.nan
    /\ options[1].initialValue = Some(Num(3))
    /\ localStorage = Some(<<"a", "b", "c">>)
    /\ counter[1].listeners # <<>>
    /\ effects = <<>>


AnimationSteps == {"classList.remove", "offsetWidth", "classList.add"}

\* C18: every committed mutation, also one that leaves the value numerically
\* unchanged, removes the animation class, forces a layout read and adds the class
\* again, in this order and once each, and leaves the class on the element; a
\* no-op increment or decrement does none of the three.
C18_AnimationRestart ==
    [][\A i \in Inst :
          (call'.inst = i /\ call'.op \in Mutations) =>
              IF Commits(i, call'.op)
              THEN /\ OfKinds(effects', AnimationSteps) =
                         <<Eff("classList.remove", <<>>), Eff("offsetWidth", <<>>),
                           Eff("classList.add", <<>>)>>
                   /\ element'[i].animation
              ELSE /\ OfKinds(effects', AnimationSteps) = <<>>
                   /\ element'[i] = element[i]]_vars

\* C18 witness: an increment by step 0 committed the value it already had and
\* restarted the animation
C18_Witness ==
    /\ call.op = "increment"
    /\ counter[1].step = Num(0)
    /\ IsCommit(effects)
    /\ Has(effects, Eff("offsetWidth", <<>>))
    /\ element[1].animation


\* How often x occurs in seq
Count(seq, x) == Len(SelectSeq(seq, LAMBDA e : e = x))

\* C19: the listener list only grows, by one entry per registration, duplicates
\* included: no operation of a Counter removes or reorders an entry, and every
\* commit, also one made by a direct call after destroy(), invokes a callback as
\* many times as it is registered.
C19_ListenersAppendOnly ==
    [][\A i \in Inst :
          (call'.inst = i) =>
              /\ call'.op = "addChangeListener" =>
                    counter'[i].listeners = Append(counter[i].listeners, call'.arg[1])
              /\ call'.op \notin {"addChangeListener", "constructor"} =>
                    counter'[i].listeners = counter[i].listeners
              /\ Commits(i, call'.op) =>
                    \A cb \in Callbacks :
                        Count(effects', Invoked(cb, counter'[i].count)) =
                            Count(counter[i].listeners, cb)]_vars

\* C19 witness: after destroy(), a direct call committed and invoked callback A,
\* registered twice, twice
C19_Witness ==
    /\ call.op \in Mutations
    /\ attached[1] = {}
    /\ counter[1].listeners = <<"A", "A">>
    /\ Invocations(effects) =
          <<Invoked("A", counter[1].count), Invoked("A", counter[1].count)>>


\* C20: addChangeListener changes nothing but the listener list: it has no
\* effect outside the Counter, so it does not invoke its callback, and it leaves
\* the value, the bounds, the display, the storage, the bound handlers and the
\* console as they were. The value of a Counter changes only in an increment,
\* a decrement or a reset.
C20_AddChangeListenerFrame ==
    [][\A i \in Inst :
          (call'.inst = i) =>
              /\ call'.op = "addChangeListener" =>
                    /\ effects' = <<>>
                    /\ counter'[i] =
                          [counter[i] EXCEPT !.listeners = counter'[i].listeners]
                    /\ counter'[i].listeners # counter[i].listeners
                    /\ element'[i] = element[i]
                    /\ attached'[i] = attached[i]
                    /\ localStorage' = localStorage
                    /\ console'[i] = console[i]
              /\ (call'.op # "constructor"
                    /\ counter'[i].count # counter[i].count) =>
                    call'.op \in Mutations]_vars

\* C20 witness: a callback was registered on a Counter that had committed a
\* value before, and nothing was invoked
C20_Witness ==
    /\ call.op = "addChangeListener"
    /\ lastCommitted[1] = Some(counter[1].count)
    /\ counter[1].count # Num(0)
    /\ counter[1].listeners = <<"A", "B">>
    /\ attached[1] = Handlers
    /\ effects = <<>>


\* minValue <= value <= maxValue in tab i
WithinBounds(i) ==
    /\ LessEq(counter[i].minValue, counter[i].count)
    /\ LessEq(counter[i].count, counter[i].maxValue)

\* step >= 1 and minValue <= 0 <= maxValue in tab i
SoundOptions(i) ==
    /\ GreaterEq(counter[i].step, Num(1))
    /\ LessEq(counter[i].minValue, Num(0))
    /\ LessEq(Num(0), counter[i].maxValue)

\* C21: if step >= 1 and minValue <= 0 <= maxValue, a value within
\* [minValue, maxValue] is still within it after any increment, decrement or
\* reset, committed or refused; so a Counter whose starting value, restored or
\* configured, lies within the bounds stays within them through every sequence
\* of such calls.
C21_BoundsPreserved ==
    [][\A i \in Inst :
          (/\ call'.inst = i
           /\ call'.op \in Mutations
           /\ SoundOptions(i)
           /\ WithinBounds(i)) =>
              /\ WithinBounds(i)'
              /\ SoundOptions(i)']_vars

\* C21 witness: a Counter with bounds -2..3 and step 2, configured to start within
\* them, had been brought down to its minValue and refused a further decrement
C21_Witness ==
    /\ call.op = "decrement"
    /\ effects = <<>>
    /\ options[1].initialValue = Some(Num(3))
    /\ counter[1].step = Num(2)
    /\ counter[1].minValue = Num(-2)
    /\ counter[1].maxValue = Num(3)
    /\ counter[1].count = Num(-2)
    /\ lastCommitted[1] = Some(Num(-2))


\* The stored entry is absent or parseInt(entry, 10) is a number
Parseable(entry) == entry = None \/ ~parseInt(entry[1]).nan

\* The value of tab i is a number, and the stored entry either is absent, no
\* commit having happened yet, or parses in base 10 to exactly that value
InSync(i) ==
    /\ ~counter[i].count.nan
    /\ \/ localStorage = None /\ lastCommitted[i] = None
       \/ localStorage # None /\ parseInt(localStorage[1]) = counter[i].count

\* C22: a Counter constructed over absent or integer-parseable storage starts
\* with the stored entry absent or parsing in base 10 to exactly its value, and
\* every operation on it (increment, decrement, reset, addChangeListener, init,
\* destroy), committed or not, leaves it so.
C22_StorageInSync ==
    [][\A i \in Inst :
          (call'.inst = i) =>
              /\ (call'.op = "constructor" /\ Parseable(localStorage)) => InSync(i)'
              /\ (call'.op # "constructor" /\ InSync(i)) => InSync(i)']_vars

\* C22 witness: a committed decrement to -2 left an entry that parses to -2
C22_Witness ==
    /\ call.op = "decrement"
    /\ IsCommit(effects)
    /\ counter[1].count = Num(-2)
    /\ localStorage = Some(<<"-", "2">>)
    /\ parseInt(localStorage[1]) = counter[1].count


\* C23: from the end of construction on, in every state between operations, the
\* text of the display element is the decimal string of the current value.
C23_DisplayInSync ==
    \A i \in Inst :
        counter[i].constructed => element[i].textContent = toString(counter[i].count)

\* C23 witness: after a committed reset of a Counter that had started at 3, the
\* display reads "0"
C23_Witness ==
    /\ call.op = "reset"
    /\ options[1].initialValue = Some(Num(3))
    /\ lastCommitted[1] = Some(Num(0))
    /\ counter[1].count = Num(0)
    /\ element[1].textContent = <<"0">>
    /\ Has(effects, Eff("textContent", <<"0">>))

====
